---- MODULE Spec2Model ----
(***************************************************************************)
(* Model of the hybrid retrieval engine of AIR_MVP_Local:                  *)
(* HybridSearchEngine.search_similar (src/search_engine.py) run against a  *)
(* Qdrant collection and the PostgreSQL table "incidents".                 *)
(*                                                                         *)
(* An incident row is modelled by its id and tech_stack; the columns       *)
(* title, description, error_type, root_cause, solution and service are    *)
(* copied verbatim from the row into the result and decide nothing.        *)
(* A Qdrant point is modelled by payload['incident_id'] and its vector;    *)
(* payload['tech_stack'] is never read by the engine.                      *)
(* Similarity scores are floats in the program and small integers here.    *)
(***************************************************************************)
EXTENDS Integers, Sequences, FiniteSets, TLC

\* ------------------------------------------------------------------ bounds
MaxPoints == 3
MaxLimit == 4

\* ------------------------------------------------------- program constants
Oversample == 3
DefaultScore == 0

\* Python's None, for the optional current_tech_stack argument.
None == "None"

Ids == {"INC-1", "INC-2"}
\* tech_stack is a TEXT column: a row may hold any string, the empty one included.
Stacks == {"", "java", "python"}
Queries == {"", "db timeout"}
StackArgs == {None, "", "java"}
Limits == 1..MaxLimit
Vectors == {0, 1}

Points == [incident_id : Ids, vector : Vectors]

\* The incidents table: id is the PRIMARY KEY, so the table is a function
\* from the ids present to the row's tech_stack.
Stores == UNION {[S -> Stacks] : S \in SUBSET Ids}
Indexes == UNION {[1..n -> Points] : n \in 0..MaxPoints}

EmptyResult == [same_stack |-> <<>>, cross_stack |-> <<>>, all_results |-> <<>>]

VARIABLES
    store,              \* rows of the PostgreSQL table incidents
    index,              \* points of the Qdrant collection "incidents"
    pg_status,          \* transaction status of self.pg_conn
    pc,                 \* position of the search_similar call
    query, current_tech_stack, limit,      \* its arguments
    query_vector, results_list, rows,      \* its locals
    incidents,
    result,             \* the returned dict
    error,              \* the exception that left the call, "" if none
    calls,              \* external calls made by the call, in order
    prev,               \* result of the preceding identical call, if any
    ingest,             \* position of the ingest job (setup_database.py)
    data,               \* the incidents import_data loaded from incidents.json
    collection,         \* whether the Qdrant collection "incidents" exists
    ui,                 \* what the page shows (main.py)
    llm,                \* outcome of the language-model call of the analysis
    analysis            \* (root_cause, solution, reasoning) of the analysis

args == <<query, current_tech_stack, limit>>
locals == <<query_vector, results_list, rows, incidents>>
world == <<store, index>>
job == <<ingest, data, collection>>
page == <<ui, llm, analysis>>
app == <<ingest, data, collection, ui, llm, analysis>>
vars == <<store, index, pg_status, pc, query, current_tech_stack, limit,
          query_vector, results_list, rows, incidents, result, error, calls, prev,
          ingest, data, collection, ui, llm, analysis>>

\* No language-model call made yet, and no analysis produced yet.
NoLlm == [status |-> "none", reply |-> <<>>]
NoAnalysis == [root_cause |-> <<>>, solution |-> <<>>, reasoning |-> <<>>]

\* ---------------------------------------------------------------- helpers
Range(s) == {s[i] : i \in DOMAIN s}

Min(a, b) == IF a <= b THEN a ELSE b

\* s[:n] for n >= 0
Take(s, n) == SubSeq(s, 1, Min(n, Len(s)))

\* Python truthiness of an optional string
Truthy(s) == s # None /\ s # ""

\* self.model.encode(query): a deterministic map from text to a vector
Encode(q) == IF q = "" THEN 0 ELSE 1

\* cosine similarity of the query vector and a point's vector
Similarity(qv, pv) == IF qv = pv THEN 2 ELSE 1

\* list.sort(key = similarity_score, reverse = True): stable, descending
RECURSIVE InsertDesc(_, _)
InsertDesc(x, s) ==
    IF s = <<>> THEN <<x>>
    ELSE IF Head(s).similarity_score >= x.similarity_score
         THEN <<Head(s)>> \o InsertDesc(x, Tail(s))
         ELSE <<x>> \o s

\* Mutant of SortDesc: reverse = True forgotten, so the sort is ascending.
RECURSIVE InsertAsc(_, _)
InsertAsc(x, s) ==
    IF s = <<>> THEN <<x>>
    ELSE IF Head(s).similarity_score <= x.similarity_score
         THEN <<Head(s)>> \o InsertAsc(x, Tail(s))
         ELSE <<x>> \o s

RECURSIVE SortAscending(_)
SortAscending(s) ==
    IF s = <<>> THEN <<>>
    ELSE InsertAsc(s[Len(s)], SortAscending(SubSeq(s, 1, Len(s) - 1)))

RECURSIVE SortDesc(_)
SortDesc(s) ==
    IF s = <<>> THEN <<>>
    ELSE InsertDesc(s[Len(s)], SortDesc(SubSeq(s, 1, Len(s) - 1)))

\* ------------------------------------------------- the vector index (Qdrant)
\* One hit per point, scored against the query vector.
Hit(p, qv) == [incident_id |-> p.incident_id, score |-> Similarity(qv, p.vector)]

RECURSIVE InsertHit(_, _)
InsertHit(h, s) ==
    IF s = <<>> THEN <<h>>
    ELSE IF Head(s).score >= h.score
         THEN <<Head(s)>> \o InsertHit(h, Tail(s))
         ELSE <<h>> \o s

RECURSIVE RankHits(_, _)
RankHits(idx, qv) ==
    IF idx = <<>> THEN <<>>
    ELSE InsertHit(Hit(idx[Len(idx)], qv), RankHits(SubSeq(idx, 1, Len(idx) - 1), qv))

\* query_points(collection, query, with_payload, limit = k).points:
\* the k nearest points, most similar first.
QueryPoints(idx, qv, k) == Take(RankHits(idx, qv), k)

\* ------------------------------------------- search_similar, steps 3 to 8
\* incident_ids = [hit.payload['incident_id'] for hit in results_list]
IncidentIds(hits) == [i \in DOMAIN hits |-> hits[i].incident_id]

\* similarity_scores = {hit.payload['incident_id']: float(hit.score) for ...}:
\* a dict comprehension, so a later hit overwrites an earlier one of the same id.
SimilarityScores(hits) ==
    [id \in Range(IncidentIds(hits)) |->
        LET last == CHOOSE i \in DOMAIN hits :
                        /\ hits[i].incident_id = id
                        /\ \A j \in DOMAIN hits : hits[j].incident_id = id => j <= i
        IN hits[last].score]

\* similarity_scores.get(id, 0.0)
GetScore(scores, id) == IF id \in DOMAIN scores THEN scores[id] ELSE DefaultScore

\* Mutant of MatchingIds: the WHERE clause forgotten, every row is selected.
MatchingIdsNoWhere(tbl, ids) == DOMAIN tbl

\* SELECT ... FROM incidents WHERE id IN (ids): the ids of the rows selected
MatchingIds(tbl, ids) == {id \in DOMAIN tbl : id \in Range(ids)}

\* cur.fetchall(): the selected rows, each once, in an order the store chooses
RowOrders(S) == {s \in [1..Cardinality(S) -> S] : \A i, j \in DOMAIN s : s[i] = s[j] => i = j}

\* Mutant of FetchAll: one row per candidate, as a join of the candidate
\* list with the table would give, so a repeated candidate repeats its row.
RECURSIVE RowPerCandidate(_, _)
RowPerCandidate(tbl, ids) ==
    IF ids = <<>> THEN <<>>
    ELSE LET rest == RowPerCandidate(tbl, Tail(ids))
         IN IF Head(ids) \in DOMAIN tbl
            THEN <<[id |-> Head(ids), tech_stack |-> tbl[Head(ids)]]>> \o rest
            ELSE rest

FetchAllJoined(tbl, ids) == {RowPerCandidate(tbl, ids)}

FetchAll(tbl, ids) ==
    {[i \in DOMAIN o |-> [id |-> o[i], tech_stack |-> tbl[o[i]]]] :
        o \in RowOrders(MatchingIds(tbl, ids))}

\* Step 5: one incident dict per row
BuildIncidents(rws, scores) ==
    [i \in DOMAIN rws |-> [id |-> rws[i].id,
                           tech_stack |-> rws[i].tech_stack,
                           similarity_score |-> GetScore(scores, rws[i].id)]]

\* Mutant of IsSameStack: the truthiness test of current_tech_stack dropped.
IsSameStackNoTruthiness(inc, stack) == inc.tech_stack = stack

\* Step 6: if current_tech_stack and inc['tech_stack'] == current_tech_stack
IsSameStack(inc, stack) == Truthy(stack) /\ inc.tech_stack = stack

RECURSIVE Partition(_, _, _)
Partition(incs, stack, same) ==
    IF incs = <<>> THEN <<>>
    ELSE LET rest == Partition(Tail(incs), stack, same)
         IN IF IsSameStack(Head(incs), stack) = same
            THEN <<Head(incs)>> \o rest ELSE rest

\* Step 7 and the return statement
SearchResult(incs, stack, lim) ==
    [same_stack  |-> Take(SortDesc(Partition(incs, stack, TRUE)), lim \div 2),
     cross_stack |-> Take(SortDesc(Partition(incs, stack, FALSE)), lim \div 2),
     all_results |-> Take(incs, lim)]

\* ------------------------------------------------------------------- Init
Init ==
    /\ store \in Stores
    /\ index \in Indexes
    /\ pg_status = "IDLE"
    /\ pc = "idle"
    /\ query = ""
    /\ current_tech_stack = None
    /\ limit = 1
    /\ query_vector = 0
    /\ results_list = <<>>
    /\ rows = <<>>
    /\ incidents = <<>>
    /\ result = EmptyResult
    /\ error = ""
    /\ calls = <<>>
    /\ prev = <<>>
    /\ ingest = "off"
    /\ data = <<>>
    /\ collection = TRUE
    /\ ui = "off"
    /\ llm = NoLlm
    /\ analysis = NoAnalysis

\* ---------------------------------------------------------------- actions
\* A caller enters search_similar(query, current_tech_stack, limit).
SearchSimilar(q, s, l) ==
    /\ pc = "idle"
    /\ pc' = "encode"
    /\ query' = q
    /\ current_tech_stack' = s
    /\ limit' = l
    /\ UNCHANGED <<world, pg_status, locals, result, error, calls, prev>>
    /\ UNCHANGED app

\* Step 1: query_vector = self.model.encode(query).tolist()
EncodeQuery ==
    /\ pc = "encode"
    /\ query_vector' = Encode(query)
    /\ calls' = Append(calls, "embed")
    /\ pc' = "query"
    /\ UNCHANGED <<world, pg_status, args, results_list, rows, incidents, result, error, prev>>
    /\ UNCHANGED app

\* Step 2: query_points, or search on a client that has no query_points;
\* both ask for limit * 3 points.
QueryIndex ==
    /\ pc = "query"
    /\ results_list' = QueryPoints(index, query_vector, limit * Oversample)
    /\ calls' = Append(calls, "index")
    /\ pc' = "fetch"
    /\ UNCHANGED <<world, pg_status, args, query_vector, rows, incidents, result, error, prev>>
    /\ UNCHANGED app

\* Mutant of QueryIndexFails: the exception is caught and the call goes on
\* with no candidates.
QueryIndexFailsSwallowed ==
    /\ pc = "query"
    /\ calls' = Append(calls, "index")
    /\ error' = "index unavailable"
    /\ results_list' = <<>>
    /\ pc' = "fetch"
    /\ UNCHANGED <<world, pg_status, args, query_vector, rows, incidents, result, prev>>
    /\ UNCHANGED app

\* Step 2 when the collection cannot be read: the exception leaves the call.
QueryIndexFails ==
    /\ pc = "query"
    /\ calls' = Append(calls, "index")
    /\ error' = "index unavailable"
    /\ pc' = "raised"
    /\ UNCHANGED <<world, pg_status, args, locals, result, prev>>
    /\ UNCHANGED app

\* Step 4: cur.execute(SELECT ... WHERE id IN (...)); rows = cur.fetchall().
\* The connection is not in autocommit mode and the call neither commits nor
\* rolls back: the first statement opens a transaction that stays open, and
\* a failed statement leaves the transaction aborted.
FetchRows ==
    /\ pc = "fetch"
    /\ pg_status \in {"IDLE", "INTRANS"}
    /\ Len(IncidentIds(results_list)) > 0
    /\ rows' \in FetchAll(store, IncidentIds(results_list))
    /\ pg_status' = "INTRANS"
    /\ calls' = Append(calls, "store")
    /\ pc' = "build"
    /\ UNCHANGED <<world, args, query_vector, results_list, incidents, result, error, prev>>
    /\ UNCHANGED app

\* Step 4 with no candidate: the statement reads "WHERE id IN ()", which
\* PostgreSQL rejects as a syntax error.
FetchSyntaxError ==
    /\ pc = "fetch"
    /\ pg_status \in {"IDLE", "INTRANS"}
    /\ Len(IncidentIds(results_list)) = 0
    /\ pg_status' = "INERROR"
    /\ calls' = Append(calls, "store")
    /\ error' = "syntax error"
    /\ pc' = "raised"
    /\ UNCHANGED <<world, args, locals, result, prev>>
    /\ UNCHANGED app

\* Step 4 on a connection whose transaction is aborted: every statement
\* fails until a rollback, which the engine never issues.
FetchInFailedTransaction ==
    /\ pc = "fetch"
    /\ pg_status = "INERROR"
    /\ calls' = Append(calls, "store")
    /\ error' = "current transaction is aborted"
    /\ pc' = "raised"
    /\ UNCHANGED <<world, pg_status, args, locals, result, prev>>
    /\ UNCHANGED app

\* Steps 5 to 8: build, partition, sort, truncate, return.
BuildAndReturn ==
    /\ pc = "build"
    /\ incidents' = BuildIncidents(rows, SimilarityScores(results_list))
    /\ result' = SearchResult(incidents', current_tech_stack, limit)
    /\ pc' = "returned"
    /\ UNCHANGED <<world, pg_status, args, query_vector, results_list, rows, error, calls, prev>>
    /\ UNCHANGED app

\* The caller makes the same call a second time, keeping the first result.
CallAgain ==
    /\ pc = "returned"
    /\ prev = <<>>
    /\ prev' = <<result>>
    /\ pc' = "encode"
    /\ query_vector' = 0
    /\ results_list' = <<>>
    /\ rows' = <<>>
    /\ incidents' = <<>>
    /\ result' = EmptyResult
    /\ calls' = <<>>
    /\ UNCHANGED <<world, pg_status, args, error>>
    /\ UNCHANGED app

\* The caller is done with the outcome; the engine waits for the next call.
Finish ==
    /\ pc \in {"returned", "raised"}
    /\ pc' = "idle"
    /\ query_vector' = 0
    /\ results_list' = <<>>
    /\ rows' = <<>>
    /\ incidents' = <<>>
    /\ result' = EmptyResult
    /\ error' = ""
    /\ calls' = <<>>
    /\ prev' = <<>>
    /\ query' = ""
    /\ current_tech_stack' = None
    /\ limit' = 1
    /\ UNCHANGED <<world, pg_status>>
    /\ UNCHANGED app

Call == \E q \in Queries, s \in StackArgs, l \in Limits : SearchSimilar(q, s, l)

Next ==
    \/ Call
    \/ EncodeQuery
    \/ QueryIndex
    \/ QueryIndexFails
    \/ FetchRows
    \/ FetchSyntaxError
    \/ FetchInFailedTransaction
    \/ BuildAndReturn
    \/ CallAgain
    \/ Finish

Spec == Init /\ [][Next]_vars

\* ------------------------------------------------- the ingest job
\* setup_database.py run as a script: db.setup(), then db.import_data().
\* The job and the engine both open ./data/qdrant_storage with a local
\* QdrantClient, which locks the folder for one client: the job runs only
\* while no engine has been constructed.
MaxData == 2

DataStacks == {"java", "python"}

\* One record of data/incidents.json: text stands for title, description and
\* root_cause, the three fields the embedding is computed from.
DataIncidents == [id : Ids, tech_stack : DataStacks, text : Queries]
Datasets == UNION {[1..n -> DataIncidents] : n \in 0..MaxData}

DataIds(d) == {d[i].id : i \in DOMAIN d}

\* INSERT INTO incidents VALUES (...) for every record, then commit: fails on
\* the PRIMARY KEY when an id repeats in the file or is already in the table.
InsertViolatesKey(tbl, d) ==
    \/ \E i, j \in DOMAIN d : i # j /\ d[i].id = d[j].id
    \/ DataIds(d) \cap DOMAIN tbl # {}

InsertRows(tbl, d) ==
    [id \in DOMAIN tbl \cup DataIds(d) |->
        IF id \in DOMAIN tbl THEN tbl[id]
        ELSE d[CHOOSE i \in DOMAIN d : d[i].id = id].tech_stack]

\* PointStruct(id = i, vector = embeddings[i], payload = {incident_id, ...})
PointOf(inc) == [incident_id |-> inc.id, vector |-> Encode(inc.text)]

\* upsert(points): point ids are the positions 0 .. n-1 of the file, so a
\* point replaces the one stored under the same position and the others stay.
Upsert(idx, d) ==
    [i \in 1..(IF Len(d) >= Len(idx) THEN Len(d) ELSE Len(idx)) |->
        IF i <= Len(d) THEN PointOf(d[i]) ELSE idx[i]]

\* python setup_database.py is started.
RunIngest ==
    /\ pc = "off"
    /\ ingest \in {"idle", "failed"}
    /\ ingest' = "setup_table"
    /\ data' = <<>>
    /\ UNCHANGED <<world, pg_status, pc, args, locals, result, error, calls, prev,
                   collection, page>>

\* setup(): DROP TABLE IF EXISTS, CREATE TABLE, CREATE INDEX, commit.
SetupTable ==
    /\ ingest = "setup_table"
    /\ store' = <<>>
    /\ ingest' = "setup_delete"
    /\ UNCHANGED <<index, pg_status, pc, args, locals, result, error, calls, prev,
                   data, collection, page>>

\* setup(): self.qdrant.delete_collection("incidents")
SetupDeleteCollection ==
    /\ ingest = "setup_delete"
    /\ index' = <<>>
    /\ collection' = FALSE
    /\ ingest' = "setup_create"
    /\ UNCHANGED <<store, pg_status, pc, args, locals, result, error, calls, prev,
                   data, page>>

\* setup(): delete_collection raises and the bare except passes.
SetupDeleteCollectionFails ==
    /\ ingest = "setup_delete"
    /\ ingest' = "setup_create"
    /\ UNCHANGED <<world, pg_status, pc, args, locals, result, error, calls, prev,
                   data, collection, page>>

\* setup(): self.qdrant.create_collection("incidents", ...)
SetupCreateCollection ==
    /\ ingest = "setup_create"
    /\ ~collection
    /\ collection' = TRUE
    /\ index' = <<>>
    /\ ingest' = "import_load"
    /\ UNCHANGED <<store, pg_status, pc, args, locals, result, error, calls, prev,
                   data, page>>

\* setup(): create_collection on a collection that still exists raises, and
\* the script ends there.
SetupCreateCollectionExists ==
    /\ ingest = "setup_create"
    /\ collection
    /\ ingest' = "failed"
    /\ UNCHANGED <<world, pg_status, pc, args, locals, result, error, calls, prev,
                   data, collection, page>>

\* import_data(): json.load and self.model.encode(texts)
ImportLoad ==
    /\ ingest = "import_load"
    /\ data' \in Datasets
    /\ ingest' = "import_rows"
    /\ UNCHANGED <<world, pg_status, pc, args, locals, result, error, calls, prev,
                   collection, page>>

\* import_data(): the INSERTs and the commit
ImportInsertRows ==
    /\ ingest = "import_rows"
    /\ ~InsertViolatesKey(store, data)
    /\ store' = InsertRows(store, data)
    /\ ingest' = "import_points"
    /\ UNCHANGED <<index, pg_status, pc, args, locals, result, error, calls, prev,
                   data, collection, page>>

\* import_data(): an INSERT violates the primary key; nothing is committed.
ImportInsertFails ==
    /\ ingest = "import_rows"
    /\ InsertViolatesKey(store, data)
    /\ ingest' = "failed"
    /\ UNCHANGED <<world, pg_status, pc, args, locals, result, error, calls, prev,
                   data, collection, page>>

\* import_data(): self.qdrant.upsert("incidents", points); the script ends.
ImportUpsert ==
    /\ ingest = "import_points"
    /\ index' = Upsert(index, data)
    /\ ingest' = "idle"
    /\ UNCHANGED <<store, pg_status, pc, args, locals, result, error, calls, prev,
                   data, collection, page>>

\* import_data(): the upsert raises; the rows stay committed.
ImportUpsertFails ==
    /\ ingest = "import_points"
    /\ ingest' = "failed"
    /\ UNCHANGED <<world, pg_status, pc, args, locals, result, error, calls, prev,
                   data, collection, page>>

Ingest ==
    \/ RunIngest
    \/ SetupTable
    \/ SetupDeleteCollection
    \/ SetupDeleteCollectionFails
    \/ SetupCreateCollection
    \/ SetupCreateCollectionExists
    \/ ImportLoad
    \/ ImportInsertRows
    \/ ImportInsertFails
    \/ ImportUpsert
    \/ ImportUpsertFails

\* ------------------------------------- the store connection, when it breaks
\* Step 4 while the server cannot be reached: execute raises and psycopg2
\* marks the connection closed.
FetchConnectionLost ==
    /\ pc = "fetch"
    /\ pg_status \in {"IDLE", "INTRANS"}
    /\ pg_status' = "CLOSED"
    /\ calls' = Append(calls, "store")
    /\ error' = "store unavailable"
    /\ pc' = "raised"
    /\ UNCHANGED <<world, args, locals, result, prev>>
    /\ UNCHANGED app

\* Step 4 on a closed connection: self.pg_conn.cursor() raises. The engine
\* connects once, in __init__, and never again.
FetchOnClosedConnection ==
    /\ pc = "fetch"
    /\ pg_status = "CLOSED"
    /\ error' = "connection already closed"
    /\ pc' = "raised"
    /\ UNCHANGED <<world, pg_status, args, locals, result, calls, prev>>
    /\ UNCHANGED app

\* ------------------------------------------------- the analysis (llm_service)
AnalyzeLimit == 10
MaxReply == 3

UiStacks == {"java", "python", "nodejs"}
Descriptions == {"", "db timeout"}
ErrorMessages == {"", "read timed out"}

\* The reply of the model as a sequence of tokens: the three section
\* markers the parser looks for, and any other text.
RootCauseMark == "ROOT CAUSE:"
SolutionMark == "SOLUTION:"
ReasoningMark == "REASONING:"
ReplyTokens == {RootCauseMark, SolutionMark, ReasoningMark, "text"}
Replies == UNION {[1..n -> ReplyTokens] : n \in 0..MaxReply}

\* str.split(sep): the pieces between the occurrences of sep
RECURSIVE Split(_, _)
Split(t, sep) ==
    IF t = <<>> THEN << <<>> >>
    ELSE LET r == Split(Tail(t), sep)
         IN IF Head(t) = sep
            THEN << <<>> >> \o r
            ELSE << <<Head(t)>> \o r[1] >> \o Tail(r)

\* str.replace(tok, "")
Remove(t, tok) == SelectSeq(t, LAMBDA x : x # tok)

\* The values the parser starts from.
ParseDefaults ==
    [root_cause |-> <<"Unable to determine">>,
     solution |-> <<"Manual investigation required">>,
     reasoning |-> <<"Insufficient similar incidents found">>]

\* The triple returned by the except branch.
Fallback ==
    [root_cause |-> <<"Error: ", "llm unavailable">>,
     solution |-> <<"LLM call failed">>,
     reasoning |-> <<"Check API key">>]

\* Mutant of ParseReply: a reply without all three markers is treated as a
\* failed generation and answered with the fallback triple.
ParseReplyStrict(r) ==
    IF {RootCauseMark, SolutionMark, ReasoningMark} \subseteq Range(r)
    THEN LET parts == Split(r, SolutionMark)
             sp == Split(parts[2], ReasoningMark)
         IN [root_cause |-> Remove(parts[1], RootCauseMark),
             solution |-> sp[1],
             reasoning |-> IF Len(sp) > 1 THEN sp[2] ELSE ParseDefaults.reasoning]
    ELSE Fallback

\* _generate_analysis, "Parse response"
ParseReply(r) ==
    IF RootCauseMark \notin Range(r) THEN ParseDefaults
    ELSE LET parts == Split(r, SolutionMark)
             root == Remove(parts[1], RootCauseMark)
         IN IF Len(parts) > 1
            THEN LET sp == Split(parts[2], ReasoningMark)
                 IN [root_cause |-> root,
                     solution |-> sp[1],
                     reasoning |-> IF Len(sp) > 1 THEN sp[2] ELSE ParseDefaults.reasoning]
            ELSE [root_cause |-> root,
                  solution |-> ParseDefaults.solution,
                  reasoning |-> ParseDefaults.reasoning]

\* The button is pressed with an empty description: st.error, no analysis.
ClickWithoutDescription ==
    /\ ui = "form"
    /\ ui' = "warning"
    /\ UNCHANGED <<world, pg_status, pc, args, locals, result, error, calls, prev,
                   job, llm, analysis>>

\* The button is pressed: get_analyzer() (which constructs the engine the
\* first time) and analyze_incident, which enters
\* search_similar(f"{description} {error_message or ''}", tech_stack, 10).
ClickAnalyze(desc, stack, err) ==
    /\ ui = "form"
    /\ desc # ""
    /\ pc \in {"off", "idle"}
    /\ ingest \in {"idle", "failed"}
    /\ ui' = "analyzing"
    /\ pc' = "encode"
    /\ query' = desc \o " " \o err
    /\ current_tech_stack' = stack
    /\ limit' = AnalyzeLimit
    /\ UNCHANGED <<world, pg_status, locals, result, error, calls, prev, job, llm, analysis>>

\* _generate_analysis: the model replies and the reply is parsed.
GenerateReplied ==
    /\ pc = "returned"
    /\ ui = "analyzing"
    /\ llm.status = "none"
    /\ \E r \in Replies :
          /\ llm' = [status |-> "replied", reply |-> r]
          /\ analysis' = ParseReply(r)
    /\ UNCHANGED <<world, pg_status, pc, args, locals, result, error, calls, prev, job, ui>>

\* _generate_analysis: the call raises and the except branch answers.
GenerateFailed ==
    /\ pc = "returned"
    /\ ui = "analyzing"
    /\ llm.status = "none"
    /\ llm' = [status |-> "failed", reply |-> <<>>]
    /\ analysis' = Fallback
    /\ UNCHANGED <<world, pg_status, pc, args, locals, result, error, calls, prev, job, ui>>

\* analyze_incident returned: st.success("Analysis Complete!") and the page
\* of results.
ShowAnalysis ==
    /\ pc = "returned"
    /\ ui = "analyzing"
    /\ llm.status # "none"
    /\ ui' = "success"
    /\ UNCHANGED <<world, pg_status, pc, args, locals, result, error, calls, prev,
                   job, llm, analysis>>

\* analyze_incident raised: st.error(f"Error: {e}") and the troubleshooting list.
ShowError ==
    /\ pc = "raised"
    /\ ui = "analyzing"
    /\ ui' = "error"
    /\ UNCHANGED <<world, pg_status, pc, args, locals, result, error, calls, prev,
                   job, llm, analysis>>

\* The user edits the form: the script runs again from the top.
Rerun ==
    /\ ui \in {"warning", "success", "error"}
    /\ ui' = "form"
    /\ pc' = IF pc = "off" THEN "off" ELSE "idle"
    /\ query' = ""
    /\ current_tech_stack' = None
    /\ limit' = 1
    /\ query_vector' = 0
    /\ results_list' = <<>>
    /\ rows' = <<>>
    /\ incidents' = <<>>
    /\ result' = EmptyResult
    /\ error' = ""
    /\ calls' = <<>>
    /\ llm' = NoLlm
    /\ analysis' = NoAnalysis
    /\ UNCHANGED <<world, pg_status, prev, job>>

Click ==
    \E desc \in Descriptions \ {""}, stack \in UiStacks, err \in ErrorMessages :
        ClickAnalyze(desc, stack, err)

\* The deployed application: the ingest job, then the page and its engine.
InitApp ==
    /\ store = <<>>
    /\ index = <<>>
    /\ collection = TRUE
    /\ pg_status = "IDLE"
    /\ pc = "off"
    /\ query = ""
    /\ current_tech_stack = None
    /\ limit = 1
    /\ query_vector = 0
    /\ results_list = <<>>
    /\ rows = <<>>
    /\ incidents = <<>>
    /\ result = EmptyResult
    /\ error = ""
    /\ calls = <<>>
    /\ prev = <<>>
    /\ ingest = "idle"
    /\ data = <<>>
    /\ ui = "form"
    /\ llm = NoLlm
    /\ analysis = NoAnalysis

NextApp ==
    \/ Ingest
    \/ ClickWithoutDescription
    \/ Click
    \/ EncodeQuery
    \/ QueryIndex
    \/ QueryIndexFails
    \/ FetchRows
    \/ FetchSyntaxError
    \/ FetchInFailedTransaction
    \/ FetchConnectionLost
    \/ FetchOnClosedConnection
    \/ BuildAndReturn
    \/ GenerateReplied
    \/ GenerateFailed
    \/ ShowAnalysis
    \/ ShowError
    \/ Rerun

SpecApp == InitApp /\ [][NextApp]_vars

\* ------------------------------------------------------------- properties
Returned == pc = "returned"
Finished == pc \in {"returned", "raised"}

IdsOf(incs) == {incs[i].id : i \in DOMAIN incs}
CandidateIds == Range(IncidentIds(results_list))

\* The vector index answered the query of this call.
IndexAnswered == Len(calls) >= 2 /\ calls[2] = "index" /\ error # "index unavailable"

Descending(incs) ==
    \A i \in 1..(Len(incs) - 1) : incs[i].similarity_score >= incs[i + 1].similarity_score

NoRepeatedId(incs) ==
    \A i, j \in DOMAIN incs : incs[i].id = incs[j].id => i = j

\* C1: in every returned result, an incident is in same_stack exactly when
\* current_tech_stack is non-empty and equals the incident's stored
\* tech_stack; every other fetched incident counts as cross_stack, and with
\* no stack supplied (None or "") same_stack is empty.
C1_PartitionByStack ==
    Returned =>
        /\ \A i \in DOMAIN result.same_stack :
              /\ current_tech_stack \notin {None, ""}
              /\ result.same_stack[i].tech_stack = current_tech_stack
              /\ result.same_stack[i].tech_stack = store[result.same_stack[i].id]
        /\ \A i \in DOMAIN result.cross_stack :
              /\ \/ current_tech_stack \in {None, ""}
                 \/ result.cross_stack[i].tech_stack # current_tech_stack
              /\ result.cross_stack[i].tech_stack = store[result.cross_stack[i].id]
        /\ current_tech_stack \in {None, ""} => result.same_stack = <<>>

C1_Witness ==
    /\ Returned
    /\ current_tech_stack = "java"
    /\ result.same_stack # <<>>
    /\ result.cross_stack # <<>>

\* The empty stack was supplied and a fetched incident's tech_stack is empty too.
C1_WitnessEmptyStack ==
    /\ Returned
    /\ current_tech_stack = ""
    /\ \E i \in DOMAIN result.cross_stack : result.cross_stack[i].tech_stack = ""

\* C2: in every returned result same_stack and cross_stack are each sorted
\* descending by similarity_score, each holds min(limit // 2, size of its
\* partition) incidents, and no incident of a partition that was cut off
\* scores higher than one that was kept.
C2_KeptTop(part, isSame) ==
    LET class == {incidents[i] : i \in {j \in DOMAIN incidents :
                     (/\ current_tech_stack \notin {None, ""}
                      /\ incidents[j].tech_stack = current_tech_stack) = isSame}}
    IN /\ Range(part) \subseteq class
       /\ Len(part) = Min(limit \div 2, Cardinality(class))
       /\ \A x \in class \ Range(part) : \A y \in Range(part) :
              y.similarity_score >= x.similarity_score

C2_SortedAndTruncated ==
    Returned =>
        /\ Descending(result.same_stack)
        /\ Descending(result.cross_stack)
        /\ C2_KeptTop(result.same_stack, TRUE)
        /\ C2_KeptTop(result.cross_stack, FALSE)

\* The store handed the rows over lowest score first, and the sort put them right.
C2_Witness ==
    /\ Returned
    /\ Len(result.cross_stack) = 2
    /\ result.cross_stack[1].similarity_score > result.cross_stack[2].similarity_score
    /\ incidents[1].similarity_score < incidents[2].similarity_score

\* A partition of two was cut to its single highest-scoring incident.
C2_WitnessTruncated ==
    /\ Returned
    /\ Len(result.same_stack) = 1
    /\ \E i \in DOMAIN incidents :
          /\ incidents[i].tech_stack = current_tech_stack
          /\ incidents[i].similarity_score < result.same_stack[1].similarity_score

\* C3: in every returned result no incident id occurs twice in same_stack or
\* in cross_stack, and the two share no id, also when several candidates of
\* the vector index carry the same incident_id.
C3_NoDuplicateIds ==
    Returned =>
        /\ NoRepeatedId(result.same_stack)
        /\ NoRepeatedId(result.cross_stack)
        /\ IdsOf(result.same_stack) \cap IdsOf(result.cross_stack) = {}

C3_Witness ==
    /\ Returned
    /\ \E i, j \in DOMAIN results_list :
          /\ i # j
          /\ results_list[i].incident_id = results_list[j].incident_id
          /\ results_list[i].incident_id \in IdsOf(result.same_stack) \cup IdsOf(result.cross_stack)
    /\ result.same_stack # <<>>
    /\ result.cross_stack # <<>>

\* C4: a call with a positive limit that got fewer candidates than it asked
\* for returns without error, with at most limit // 2 incidents in each
\* partition and at most limit in all_results.
C4_BoundedNeverError ==
    (Finished /\ IndexAnswered /\ limit >= 1 /\ Len(results_list) < limit * Oversample) =>
        /\ Returned
        /\ Len(result.same_stack) <= limit \div 2
        /\ Len(result.cross_stack) <= limit \div 2
        /\ Len(result.all_results) <= limit

\* The part of C4 the code keeps: the lengths of every returned result.
LengthsBounded ==
    Returned =>
        /\ Len(result.same_stack) <= limit \div 2
        /\ Len(result.cross_stack) <= limit \div 2
        /\ Len(result.all_results) <= limit

\* C5: when the vector index returns zero candidates the call returns a
\* result whose three sequences are empty, and raises nothing.
C5_ZeroCandidatesEmptyResult ==
    (Finished /\ IndexAnswered /\ results_list = <<>>) =>
        /\ Returned
        /\ result = EmptyResult

\* C6: a call with an empty query string calls neither the embedding
\* provider nor the vector index nor the incident store.
C6_EmptyQueryNoExternalCall ==
    (pc # "idle" /\ query = "") => calls = <<>>

\* C7: when a candidate id has no row in the store the call still returns:
\* the fetched incidents are exactly the candidates that have a row, and
\* every returned incident is one of them.
C7_MissingRowOmitted ==
    (Finished /\ CandidateIds \ DOMAIN store # {}) =>
        /\ Returned
        /\ IdsOf(incidents) = CandidateIds \cap DOMAIN store
        /\ IdsOf(result.same_stack) \subseteq CandidateIds \cap DOMAIN store
        /\ IdsOf(result.cross_stack) \subseteq CandidateIds \cap DOMAIN store
        /\ IdsOf(result.all_results) \subseteq CandidateIds \cap DOMAIN store

C7_Witness ==
    /\ Returned
    /\ CandidateIds \ DOMAIN store # {}
    /\ result.all_results # <<>>

\* C8: all_results is the top `limit` of the fetched incidents by
\* similarity_score, in descending order.
C8_AllResultsRanked ==
    Returned =>
        /\ Descending(result.all_results)
        /\ Len(result.all_results) = Min(limit, Len(incidents))
        /\ \A x \in Range(incidents) \ Range(result.all_results) :
              \A y \in Range(result.all_results) :
                  y.similarity_score >= x.similarity_score

\* C9: a second call with the same arguments against the same index and
\* store returns the same same_stack, cross_stack and all_results, in the
\* same order, as the first.
C9_Idempotent ==
    (Returned /\ prev # <<>>) => result = prev[1]

\* C10: every fetched incident carries the score of the first candidate of
\* its id in the index's returned order, or 0.0 if its id has no candidate.
FirstSeenScore(hits, id) ==
    IF id \in Range(IncidentIds(hits))
    THEN hits[CHOOSE i \in DOMAIN hits :
                 /\ hits[i].incident_id = id
                 /\ \A j \in DOMAIN hits : hits[j].incident_id = id => i <= j].score
    ELSE DefaultScore

C10_FirstSeenScore ==
    Returned =>
        \A i \in DOMAIN incidents :
            incidents[i].similarity_score = FirstSeenScore(results_list, incidents[i].id)

\* C11: a search whose index answered with candidates fails only if the
\* store cannot be reached during that very call: the state an earlier call
\* left the shared connection in never makes it fail.
C11_LaterSearchUnaffected ==
    (pc = "raised" /\ IndexAnswered /\ results_list # <<>>) =>
        error = "store unavailable"

\* The connection after a call has left search_similar, clean or not.
ConnectionClean == pc = "idle" => pg_status \in {"IDLE", "INTRANS"}

\* The reply has the three sections in the order the prompt asks for.
WellFormed(r) ==
    \E i, j, k \in DOMAIN r :
        /\ i < j /\ j < k
        /\ r[i] = RootCauseMark /\ r[j] = SolutionMark /\ r[k] = ReasoningMark

GenerationFailure ==
    \/ llm.status = "failed"
    \/ llm.status = "replied" /\ ~WellFormed(llm.reply)

C12_WitnessFailedCall ==
    /\ llm.status = "failed"
    /\ analysis = Fallback

\* C13: the generation fallback is never presented as a completed,
\* successful analysis.
C13_FailureNotShownAsSuccess ==
    ui = "success" => (llm.status # "failed" /\ analysis # Fallback)

\* The rest of C13: the error presentation stands for "could not search"
\* only, never for a search that found no candidate.
ErrorMeansUnavailable ==
    ui = "error" =>
        error \in {"index unavailable", "store unavailable", "connection already closed"}

\* C14: in every call the external steps run once each in the order embed,
\* index query, store fetch; a returned call has made all three without an
\* error, and a failure ends the call at once, with the error raised and no
\* rows fetched, no incident built and no result returned.
C14_StepsOnceNoSwallow ==
    /\ \E n \in 0..3 : calls = SubSeq(<<"embed", "index", "store">>, 1, n)
    /\ Returned => (calls = <<"embed", "index", "store">> /\ error = "")
    /\ pc = "raised" => error # ""
    /\ error # "" =>
          /\ pc = "raised"
          /\ rows = <<>>
          /\ incidents = <<>>
          /\ result = EmptyResult

C14_Witness ==
    /\ pc = "raised"
    /\ error = "store unavailable"
    /\ calls = <<"embed", "index", "store">>
    /\ results_list # <<>>

\* The index query failed: the store was never asked.
C14_WitnessIndexFails ==
    /\ pc = "raised"
    /\ error = "index unavailable"
    /\ calls = <<"embed", "index">>

\* C15: in every state the ingest job passes through or is left in, every
\* point of the vector index carries an incident_id that has a row in the
\* incidents table (one row at most, id being the primary key).
C15_ReferentialIntegrity ==
    \A i \in DOMAIN index : index[i].incident_id \in DOMAIN store

\* A search of the engine meets a candidate id that has no row.
SearchMeetsDanglingId ==
    pc = "build" /\ CandidateIds \ DOMAIN store # {}

====
